---- MODULE Spec2Model ----
(***************************************************************************)
(* Model of generate_metrics.py: the extraction of per-character metrics   *)
(* from a TrueType font and their serialisation as a Dart table.           *)
(*                                                                         *)
(* Numbers.  The program divides integer font units by unitsPerEm and      *)
(* rounds the quotient to five decimals.  A quotient is kept here as its   *)
(* numerator over the (positive) unitsPerEm of the font; a rounded value   *)
(* is kept as an integer count of 1/Scale, so 0.7 is 70000.                *)
(*                                                                         *)
(* Text.  A string is a sequence of one-character strings, so that         *)
(* lower() and replace() act on it as they do in the program.              *)
(***************************************************************************)
EXTENDS Integers, Sequences, FiniteSets, TLC

VARIABLES
    argv,               \* the command line's positional argument, or NoArg
    fontfile,           \* what the font-parsing library finds at the path
    pc,                 \* position of the script
    font_path,          \* args.font_path
    all_unicode_points, \* sorted(cmap.keys())
    i,                  \* number of code points the loop has handled
    visited,            \* the code points the loop has handled, in order
    metrics,            \* the mapping under construction
    processed,
    errors,
    all_metrics,        \* the mapping returned to __main__
    stdout,             \* the decisive messages printed, in order
    outFile,            \* the file written by save_complete_metrics
    exitStatus          \* the process's exit status once it has ended

vars == <<argv, fontfile, pc, font_path, all_unicode_points, i, visited,
          metrics, processed, errors, all_metrics, stdout, outFile, exitStatus>>

-----------------------------------------------------------------------------
(* Bounds of the model *)

\* The largest number of code points in a font's character map.
MaxCmapSize == 2

-----------------------------------------------------------------------------
(* Program constants *)

\* round(x, 5): five decimal digits.
Scale == 100000

\* "Only print first 10 errors".
MaxPrintedErrors == 10

\* font_name="Excalifont-Regular"
DefaultFontName ==
    <<"E","x","c","a","l","i","f","o","n","t","-","R","e","g","u","l","a","r">>

\* '_complete_metrics.dart'
FileSuffix ==
    <<"_","c","o","m","p","l","e","t","e","_","m","e","t","r","i","c","s",
      ".","d","a","r","t">>

-----------------------------------------------------------------------------
(* Text *)

UpperChars == <<"A","B","C","D","E","F","G","H","I","J","K","L","M",
                "N","O","P","Q","R","S","T","U","V","W","X","Y","Z">>
LowerChars == <<"a","b","c","d","e","f","g","h","i","j","k","l","m",
                "n","o","p","q","r","s","t","u","v","w","x","y","z">>

\* str.lower()
Lower(s) ==
    [k \in 1..Len(s) |->
        IF \E u \in 1..Len(UpperChars) : UpperChars[u] = s[k]
        THEN LowerChars[CHOOSE u \in 1..Len(UpperChars) : UpperChars[u] = s[k]]
        ELSE s[k]]

\* str.replace("-", "_")
ReplaceDash(s) == [k \in 1..Len(s) |-> IF s[k] = "-" THEN "_" ELSE s[k]]

\* f'{font_name.lower().replace("-", "_")}_complete_metrics.dart'
OutputFileName(font_name) == ReplaceDash(Lower(font_name)) \o FileSuffix

-----------------------------------------------------------------------------
(* The fonts *)

NoArg == <<>>

\* Paths given on the command line.
FontPaths ==
    { <<"E","x","c","a","l","i","f","o","n","t","-","R","e","g","u","l","a","r",
        ".","t","t","f">>,
      <<"f","/","M","y","-","B","o","l","d",".","t","t","f">> }

CodePoints == {32, 65, 9731}

\* hmtx.metrics: glyph name -> (advance width, left side bearing).  The
\* format stores the advance as an unsigned 16-bit number.
HmtxMetrics ==
    [g \in {"A", "x", "under", "space", "ghost", "bad", "dot"} |->
        CASE g = "A"     -> [advance_width |-> 500, lsb |-> 20]
          [] g = "x"     -> [advance_width |-> 1,   lsb |-> 0]
          [] g = "under" -> [advance_width |-> 600, lsb |-> 50]
          [] g = "space" -> [advance_width |-> 250, lsb |-> 0]
          [] g = "ghost" -> [advance_width |-> 32,  lsb |-> 3]
          [] g = "bad"   -> [advance_width |-> 333, lsb |-> 7]
          [] g = "dot"   -> [advance_width |-> 0,   lsb |-> 0]]

\* The glyph names a character map may name; "nometric" has no hmtx entry.
GlyphNames == DOMAIN HmtxMetrics \cup {"nometric"}

\* font.getGlyphSet(): "ghost" is mapped but has no outline.
GlyphSet == GlyphNames \ {"ghost"}

\* What glyph.draw(bounds_pen) and bounds_pen.bounds give for a glyph of
\* the glyph set: an exception, no bounds (an empty outline), or the ink box.
Box(x_min, y_min, x_max, y_max) ==
    [kind |-> "bounds", x_min |-> x_min, y_min |-> y_min,
     x_max |-> x_max, y_max |-> y_max]
NoBounds == [kind |-> "none",  x_min |-> 0, y_min |-> 0, x_max |-> 0, y_max |-> 0]
Raises   == [kind |-> "raise", x_min |-> 0, y_min |-> 0, x_max |-> 0, y_max |-> 0]

DrawBounds(g) ==
    CASE g = "A"        -> Box(0, -200, 300, 700)
      [] g = "x"        -> Box(10, 10, 290, 333)
      [] g = "under"    -> Box(0, -200, 300, -5)
      [] g = "dot"      -> Box(0, 0, 0, 0)
      [] g = "nometric" -> Box(0, -200, 300, 700)
      [] g = "space"    -> NoBounds
      [] g = "bad"      -> Raises
      [] OTHER          -> NoBounds

EmptyMap == [c \in {} |-> 0]

\* The character maps: partial functions from code points to glyph names.
Cmaps ==
    UNION { [S -> GlyphNames] :
            S \in { T \in SUBSET CodePoints : Cardinality(T) <= MaxCmapSize } }

\* (ascender, descender) of hhea.
Headers == { <<800, -200>>, <<-100, 50>>, <<0, 0>> }

\* head.unitsPerEm is an unsigned 16-bit number.
UnitsPerEmValues == {0, 1000, 2048}

BadFile(kind) ==
    [kind |-> kind, unitsPerEm |-> 0, ascender |-> 0, descender |-> 0,
     cmap |-> EmptyMap, hmtx_ok |-> FALSE]

\* A font file is unreadable, lacks a required table, has no Unicode
\* character map, or parses.  hmtx_ok is FALSE when the hmtx table cannot be
\* decompiled: the library then keeps it as raw data with no `metrics`.
FontFiles ==
    { BadFile("unreadable"), BadFile("notable"), BadFile("nocmap") }
    \cup
    { [kind |-> "font", unitsPerEm |-> u, ascender |-> h[1], descender |-> h[2],
       cmap |-> c, hmtx_ok |-> ok] :
        u \in UnitsPerEmValues, h \in Headers, c \in Cmaps, ok \in BOOLEAN }

-----------------------------------------------------------------------------
(* Pure functions of the program *)

RECURSIVE SortedSeq(_)
\* sorted(S)
SortedSeq(S) ==
    IF S = {} THEN <<>>
    ELSE LET m == CHOOSE x \in S : \A y \in S : x <= y
         IN <<m>> \o SortedSeq(S \ {m})

\* Mutant: only the ASCII window 32-126 is walked.
AsciiOnlyPoints(cmap) == SortedSeq({c \in DOMAIN cmap : 32 <= c /\ c <= 126})

\* all_unicode_points = sorted(cmap.keys())
AllUnicodePoints(cmap) == SortedSeq(DOMAIN cmap)

\* Mutant: the range is printed only when there is one, so nothing raises.
UnicodeRangeGuarded(points) == FALSE

\* min(all_unicode_points) and max(...) raise ValueError on an empty list.
UnicodeRangeFails(points) == points = <<>>

\* Whether the body of the function before the loop raises.
LoadFails(f) ==
    \/ f.kind # "font"
    \/ f.unitsPerEm = 0
    \/ UnicodeRangeFails(AllUnicodePoints(f.cmap))

\* Mutant: the line height instead of the ascender.
FontHeightFromLineHeight(f) == f.ascender - f.descender

\* font_height = hhea.ascender / units_per_em        (numerator)
FontHeight(f) == f.ascender

\* font_depth = -hhea.descender / units_per_em if hhea.descender < 0 else 0
FontDepth(f) == IF f.descender < 0 THEN -f.descender ELSE 0

\* The bounds the inner try block obtains: none when the glyph is not in
\* the glyph set, when its outline is empty, or when measuring raises.
MeasuredBounds(g) ==
    IF g \in GlyphSet /\ DrawBounds(g).kind = "bounds"
    THEN DrawBounds(g) ELSE NoBounds

\* height = y_max / units_per_em if y_max > 0 else font_height
GlyphHeight(f, g) ==
    LET b == MeasuredBounds(g)
    IN  IF b.kind = "bounds"
        THEN (IF b.y_max > 0 THEN b.y_max ELSE FontHeight(f))
        ELSE FontHeight(f)

\* Mutant: a glyph that does not descend gets the font-wide depth.
GlyphDepthDefaulting(f, g) ==
    LET b == MeasuredBounds(g)
    IN  IF b.kind = "bounds" /\ b.y_min < 0 THEN -b.y_min ELSE FontDepth(f)

\* depth = -y_min / units_per_em if y_min < 0 else 0
GlyphDepth(f, g) ==
    LET b == MeasuredBounds(g)
    IN  IF b.kind = "bounds"
        THEN (IF b.y_min < 0 THEN -b.y_min ELSE 0)
        ELSE FontDepth(f)

\* Mutant: the left side bearing is taken for the advance width.
GlyphWidthFromLsb(g) == HmtxMetrics[g].lsb

\* width = advance_width / units_per_em
GlyphWidth(g) == HmtxMetrics[g].advance_width

\* Mutant: the value is not clamped.
ClampMissing(x) == x

\* max(0, x)
Clamp(x) == IF x > 0 THEN x ELSE 0

\* round(num / den, 5) for num >= 0, den > 0, in units of 1/Scale.  A tie is
\* met only by a quotient the float holds exactly, and goes to the even digit.
Round5(num, den) ==
    LET q == (num * Scale) \div den
        r == (num * Scale) % den
    IN  IF 2 * r < den THEN q
        ELSE IF 2 * r > den THEN q + 1
        ELSE IF q % 2 = 0 THEN q ELSE q + 1

\* metrics[unicode_val] = {...}
MetricsRecord(f, g) ==
    [depth  |-> Round5(Clamp(GlyphDepth(f, g)), f.unitsPerEm),
     height |-> Round5(Clamp(GlyphHeight(f, g)), f.unitsPerEm),
     italic |-> 0,
     skew   |-> 0,
     width  |-> Round5(Clamp(GlyphWidth(g)), f.unitsPerEm)]

\* Mutant: the handler sits outside the loop, which the first error ends.
AbortAfterError(k, n) == n

\* The handler of a per-code-point exception leaves the loop running.
ContinueAfterError(k, n) == k + 1

RECURSIVE DescendingSeq(_)
DescendingSeq(S) ==
    IF S = {} THEN <<>>
    ELSE LET m == CHOOSE x \in S : \A y \in S : x >= y
         IN <<m>> \o DescendingSeq(S \ {m})

\* Mutant: the keys are walked in descending order.
MetricKeysDescending(m) == DescendingSeq(DOMAIN m)

\* for codepoint in sorted(metrics.keys())
MetricKeys(m) == SortedSeq(DOMAIN m)

\* '{codepoint}: CharacterMetrics({depth}, {height}, {italic}, {skew}, {width}),'
FormatEntry(cp, metric) ==
    <<cp, metric.depth, metric.height, metric.italic, metric.skew, metric.width>>

\* dart_output and the comment lines written before it.
DartFile(m, font_name) ==
    [name      |-> OutputFileName(font_name),
     font_name |-> font_name,
     total     |-> Cardinality(DOMAIN m),
     key       |-> font_name,
     entries   |-> [k \in 1..Len(MetricKeys(m)) |->
                       FormatEntry(MetricKeys(m)[k], m[MetricKeys(m)[k]])]]

NoFile == [name |-> <<>>, font_name |-> <<>>, total |-> 0, key |-> <<>>,
           entries |-> <<>>]

-----------------------------------------------------------------------------
(* The script *)

Init ==
    /\ argv \in FontPaths \cup {NoArg}
    /\ fontfile \in FontFiles
    /\ pc = "start"
    /\ font_path = NoArg
    /\ all_unicode_points = <<>>
    /\ i = 0
    /\ visited = <<>>
    /\ metrics = EmptyMap
    /\ processed = 0
    /\ errors = 0
    /\ all_metrics = EmptyMap
    /\ stdout = <<>>
    /\ outFile = NoFile
    /\ exitStatus = -1

\* except Exception as e: print(f"Script failed: {e}"); traceback.print_exc()
\* and the script runs off its end.
MainExcept ==
    /\ stdout' = Append(stdout, "Script failed")
    /\ pc' = "done"
    /\ exitStatus' = 0

\* parser.parse_args() without the positional argument: usage error, exit 2.
ArgError ==
    /\ pc = "start"
    /\ argv = NoArg
    /\ pc' = "done"
    /\ exitStatus' = 2
    /\ UNCHANGED <<argv, fontfile, font_path, all_unicode_points, i, visited,
                   metrics, processed, errors, all_metrics, stdout, outFile>>

\* The function up to the loop raises; __main__ catches it.
LoadFontFails ==
    /\ pc = "start"
    /\ argv # NoArg
    /\ LoadFails(fontfile)
    /\ font_path' = argv
    /\ MainExcept
    /\ UNCHANGED <<argv, fontfile, all_unicode_points, i, visited, metrics,
                   processed, errors, all_metrics, outFile>>

\* The function reaches the loop.
LoadFont ==
    /\ pc = "start"
    /\ argv # NoArg
    /\ ~LoadFails(fontfile)
    /\ font_path' = argv
    /\ all_unicode_points' = AllUnicodePoints(fontfile.cmap)
    /\ metrics' = EmptyMap
    /\ processed' = 0
    /\ errors' = 0
    /\ i' = 0
    /\ pc' = "loop"
    /\ UNCHANGED <<argv, fontfile, visited, all_metrics, stdout, outFile,
                   exitStatus>>

\* One iteration: `glyph_name in hmtx.metrics` raises (the outer except).
GlyphError ==
    /\ pc = "loop"
    /\ i < Len(all_unicode_points)
    /\ ~fontfile.hmtx_ok
    /\ errors' = errors + 1
    /\ stdout' = IF errors' <= MaxPrintedErrors
                 THEN Append(stdout, "Error processing") ELSE stdout
    /\ visited' = Append(visited, all_unicode_points[i + 1])
    /\ i' = ContinueAfterError(i, Len(all_unicode_points))
    /\ UNCHANGED <<argv, fontfile, pc, font_path, all_unicode_points, metrics,
                   processed, all_metrics, outFile, exitStatus>>

\* One iteration: the glyph has no entry in hmtx.metrics.
SkipNoAdvance ==
    /\ pc = "loop"
    /\ i < Len(all_unicode_points)
    /\ fontfile.hmtx_ok
    /\ fontfile.cmap[all_unicode_points[i + 1]] \notin DOMAIN HmtxMetrics
    /\ errors' = errors + 1
    /\ visited' = Append(visited, all_unicode_points[i + 1])
    /\ i' = i + 1
    /\ UNCHANGED <<argv, fontfile, pc, font_path, all_unicode_points, metrics,
                   processed, all_metrics, stdout, outFile, exitStatus>>

\* One iteration: a record is emitted.
ProcessGlyph ==
    /\ pc = "loop"
    /\ i < Len(all_unicode_points)
    /\ fontfile.hmtx_ok
    /\ LET cp == all_unicode_points[i + 1]
           g  == fontfile.cmap[cp]
       IN  /\ g \in DOMAIN HmtxMetrics
           /\ metrics' = (cp :> MetricsRecord(fontfile, g)) @@ metrics
    /\ processed' = processed + 1
    /\ visited' = Append(visited, all_unicode_points[i + 1])
    /\ i' = i + 1
    /\ UNCHANGED <<argv, fontfile, pc, font_path, all_unicode_points, errors,
                   all_metrics, stdout, outFile, exitStatus>>

\* The loop is over: return metrics.
ExtractReturn ==
    /\ pc = "loop"
    /\ i >= Len(all_unicode_points)
    /\ all_metrics' = metrics
    /\ pc' = "extracted"
    /\ UNCHANGED <<argv, fontfile, font_path, all_unicode_points, i, visited,
                   metrics, processed, errors, stdout, outFile, exitStatus>>

\* if all_metrics: analyze, show, save_complete_metrics(all_metrics), report.
SaveAndReport ==
    /\ pc = "extracted"
    /\ DOMAIN all_metrics # {}
    /\ outFile' = DartFile(all_metrics, DefaultFontName)
    /\ stdout' = Append(stdout, "SUCCESS!")
    /\ pc' = "done"
    /\ exitStatus' = 0
    /\ UNCHANGED <<argv, fontfile, font_path, all_unicode_points, i, visited,
                   metrics, processed, errors, all_metrics>>

\* A step after the extraction raises (open(filename, 'w') fails, or a print
\* of a character the console cannot encode); __main__ catches it.
SaveFails ==
    /\ pc = "extracted"
    /\ DOMAIN all_metrics # {}
    /\ MainExcept
    /\ UNCHANGED <<argv, fontfile, font_path, all_unicode_points, i, visited,
                   metrics, processed, errors, all_metrics, outFile>>

\* else: print("Failed to extract any characters")
NoCharacters ==
    /\ pc = "extracted"
    /\ DOMAIN all_metrics = {}
    /\ stdout' = Append(stdout, "Failed to extract any characters")
    /\ pc' = "done"
    /\ exitStatus' = 0
    /\ UNCHANGED <<argv, fontfile, font_path, all_unicode_points, i, visited,
                   metrics, processed, errors, all_metrics, outFile>>

Next ==
    \/ ArgError
    \/ LoadFontFails
    \/ LoadFont
    \/ GlyphError
    \/ SkipNoAdvance
    \/ ProcessGlyph
    \/ ExtractReturn
    \/ SaveAndReport
    \/ SaveFails
    \/ NoCharacters

Spec == Init /\ [][Next]_vars

-----------------------------------------------------------------------------
(* Properties *)

Range(s) == { s[k] : k \in DOMAIN s }

\* The glyph the character map gives for a code point.
GlyphOf(cp) == fontfile.cmap[cp]

\* w is num/den rounded to five decimals (w counts 1/Scale): the nearest
\* such number, and the even one when two are equally near.
RoundsTo(w, num, den) ==
    LET d == w * den - num * Scale
    IN  /\ 2 * d <= den
        /\ 2 * d >= -den
        /\ (2 * d = den \/ 2 * d = -den) => w % 2 = 0

\* The glyph's ink box is available: the glyph is in the glyph set and
\* measuring it gives bounds.
HasBounds(g) == g \in GlyphSet /\ DrawBounds(g).kind = "bounds"

NonNegativeRecords(m) ==
    \A cp \in DOMAIN m :
        /\ m[cp].depth >= 0
        /\ m[cp].height >= 0
        /\ m[cp].width >= 0
        /\ m[cp].italic = 0
        /\ m[cp].skew = 0

\* C1: every record of the mapping, at every point of the loop and at
\* return, has depth >= 0, height >= 0, width >= 0, italic = 0 and skew = 0.
C1_NonNegative == NonNegativeRecords(metrics) /\ NonNegativeRecords(all_metrics)

\* C1 witness: a record was emitted from the font-wide height of a font
\* whose ascender is negative, and the mapping was returned.
C1_Witness ==
    /\ pc = "extracted"
    /\ fontfile.ascender < 0
    /\ \E cp \in DOMAIN all_metrics :
          ~HasBounds(GlyphOf(cp)) /\ all_metrics[cp].height = 0

\* C2: at return the keys of the mapping are exactly the code points of the
\* character map whose glyph has an advance-width entry in hmtx.
C2_KeySet ==
    pc = "extracted" =>
        DOMAIN all_metrics =
            { cp \in DOMAIN fontfile.cmap :
                fontfile.hmtx_ok /\ GlyphOf(cp) \in DOMAIN HmtxMetrics }

\* C2 witness: a code point outside the ASCII window whose measurement
\* raised is in the returned mapping, and one without advance width is not.
C2_Witness ==
    /\ pc = "extracted"
    /\ 9731 \in DOMAIN all_metrics
    /\ GlyphOf(9731) = "bad"
    /\ \E cp \in DOMAIN fontfile.cmap :
          GlyphOf(cp) = "nometric" /\ cp \notin DOMAIN all_metrics

\* C3 as stated: the record's width is exactly advance width / unitsPerEm.
C3_WidthExact ==
    \A cp \in DOMAIN metrics :
        metrics[cp].width * fontfile.unitsPerEm
            = HmtxMetrics[GlyphOf(cp)].advance_width * Scale

\* C3 amended: the record's width is advance width / unitsPerEm rounded to
\* five decimals, whatever the glyph's bounds and whether measuring failed.
C3_WidthRounded ==
    \A cp \in DOMAIN metrics :
        RoundsTo(metrics[cp].width,
                 HmtxMetrics[GlyphOf(cp)].advance_width, fontfile.unitsPerEm)

\* C3 witness: a glyph whose measurement raised, advance 333 at 2048 units
\* per em, emitted with width 0.1626.
C3_Witness ==
    /\ fontfile.unitsPerEm = 2048
    /\ \E cp \in DOMAIN metrics :
          GlyphOf(cp) = "bad" /\ metrics[cp].width = 16260

\* C4 as stated: with an ink box, height is exactly y_max / unitsPerEm when
\* y_max > 0 and the font-wide default ascender / unitsPerEm otherwise;
\* depth is exactly -y_min / unitsPerEm when y_min < 0 and 0 otherwise.
C4_BoundsExact ==
    \A cp \in DOMAIN metrics :
        HasBounds(GlyphOf(cp)) =>
            LET b == DrawBounds(GlyphOf(cp))
                u == fontfile.unitsPerEm
            IN  /\ metrics[cp].height * u =
                      (IF b.y_max > 0 THEN b.y_max ELSE fontfile.ascender) * Scale
                /\ IF b.y_min < 0
                   THEN metrics[cp].depth * u = (-b.y_min) * Scale
                   ELSE metrics[cp].depth = 0

\* C4 amended: with an ink box, height is y_max / unitsPerEm rounded to five
\* decimals when y_max > 0, and otherwise the font-wide default height
\* clamped at 0 and rounded; depth is -y_min / unitsPerEm rounded to five
\* decimals when y_min < 0, and otherwise 0 (not the font-wide depth).
C4_BoundsRounded ==
    \A cp \in DOMAIN metrics :
        HasBounds(GlyphOf(cp)) =>
            LET b == DrawBounds(GlyphOf(cp))
                u == fontfile.unitsPerEm
                a == IF fontfile.ascender > 0 THEN fontfile.ascender ELSE 0
            IN  /\ RoundsTo(metrics[cp].height,
                            IF b.y_max > 0 THEN b.y_max ELSE a, u)
                /\ IF b.y_min < 0
                   THEN RoundsTo(metrics[cp].depth, -b.y_min, u)
                   ELSE metrics[cp].depth = 0

\* C4 witness: in a font with a descender below the baseline, a glyph wholly
\* above the baseline has depth 0 and a height from its own box, rounded.
C4_Witness ==
    /\ fontfile.descender < 0
    /\ fontfile.unitsPerEm = 2048
    /\ \E cp \in DOMAIN metrics :
          /\ GlyphOf(cp) = "x"
          /\ metrics[cp].depth = 0
          /\ metrics[cp].height = 16260

\* C5 as stated: without bounds, height is exactly ascender / unitsPerEm and
\* depth exactly max(0, -descender / unitsPerEm), for every ascender.
C5_DefaultExact ==
    \A cp \in DOMAIN metrics :
        ~HasBounds(GlyphOf(cp)) =>
            /\ metrics[cp].height * fontfile.unitsPerEm = fontfile.ascender * Scale
            /\ metrics[cp].depth * fontfile.unitsPerEm =
                  (IF fontfile.descender < 0 THEN -fontfile.descender ELSE 0) * Scale

\* C5 amended: without bounds, height is max(0, ascender / unitsPerEm) and
\* depth is max(0, -descender / unitsPerEm), each rounded to five decimals.
C5_DefaultClampedRounded ==
    \A cp \in DOMAIN metrics :
        ~HasBounds(GlyphOf(cp)) =>
            /\ RoundsTo(metrics[cp].height,
                        IF fontfile.ascender > 0 THEN fontfile.ascender ELSE 0,
                        fontfile.unitsPerEm)
            /\ RoundsTo(metrics[cp].depth,
                        IF fontfile.descender < 0 THEN -fontfile.descender ELSE 0,
                        fontfile.unitsPerEm)

\* C5 witness: a glyph absent from the glyph set and a glyph whose
\* measurement raised, both emitted with the font-wide values 800/2048 and
\* 200/2048 rounded.
C5_Witness ==
    /\ fontfile.unitsPerEm = 2048
    /\ fontfile.ascender = 800
    /\ fontfile.descender = -200
    /\ \E c1, c2 \in DOMAIN metrics :
          /\ GlyphOf(c1) = "ghost"
          /\ GlyphOf(c2) = "bad"
          /\ metrics[c1].height = 39062 /\ metrics[c1].depth = 9766
          /\ metrics[c2].height = 39062 /\ metrics[c2].depth = 9766

C6_State ==
    /\ Len(visited) = i
    /\ \A k \in 1..Len(visited) :
          /\ k <= Len(all_unicode_points)
          /\ visited[k] = all_unicode_points[k]
    /\ \A k \in 1..(Len(visited) - 1) : visited[k] < visited[k + 1]
    /\ pc = "loop" => ENABLED Next
    /\ pc = "extracted" => visited = AllUnicodePoints(fontfile.cmap)

C6_Step ==
    /\ pc = "loop" => pc' \in {"loop", "extracted"}
    /\ pc = "loop" /\ pc' = "extracted" => all_metrics' = metrics
    /\ \A cp \in DOMAIN metrics :
          cp \in DOMAIN metrics' /\ metrics'[cp] = metrics[cp]
    /\ pc = "loop" /\ i < Len(all_unicode_points) =>
          DOMAIN metrics' \ DOMAIN metrics \subseteq {all_unicode_points[i + 1]}

\* C6: once the loop has started, no per-glyph failure aborts it: the loop
\* handles every code point of the character map in ascending order and the
\* function returns the mapping; a step adds at most the record of the code
\* point it handles and changes no record emitted before.
C6_NeverAborts == [](C6_State) /\ [][C6_Step]_vars

\* C6 witness: the function returned after one code point was dropped for
\* lack of an advance width and another, whose measurement raised, was
\* emitted with default height and depth.
C6_Witness ==
    /\ pc = "extracted"
    /\ errors = 1
    /\ Len(visited) = 2
    /\ \E cp \in DOMAIN all_metrics : GlyphOf(cp) = "bad"

\* C7: a run that met a fatal failure ends with a non-zero exit status.
C7_FatalExitsNonZero ==
    (pc = "done" /\ "Script failed" \in Range(stdout)) => exitStatus > 0

\* The font's base file name: the path after its last "/", up to its last ".".
LastIndex(s, c) ==
    IF \E k \in 1..Len(s) : s[k] = c
    THEN CHOOSE k \in 1..Len(s) : s[k] = c /\ \A j \in (k + 1)..Len(s) : s[j] # c
    ELSE 0
FileNameOf(path) == SubSeq(path, LastIndex(path, "/") + 1, Len(path))
StripExtension(name) ==
    IF LastIndex(name, ".") > 1 THEN SubSeq(name, 1, LastIndex(name, ".") - 1)
    ELSE name
BaseName(path) == StripExtension(FileNameOf(path))

\* C8: when a run writes an output file, the table's outer key is the input
\* font's base file name without extension, and the file's name is derived
\* from that name.
C8_KeyIsFontBaseName ==
    pc = "done" /\ outFile # NoFile =>
        /\ outFile.key = BaseName(font_path)
        /\ outFile.name = OutputFileName(BaseName(font_path))

\* C9: the emitted table holds exactly one entry per key of the mapping and
\* no other, in strictly ascending code-point order, each entry listing the
\* key's depth, height, italic, skew, width in that order.
C9_TableEntries ==
    outFile # NoFile =>
        LET e == outFile.entries
        IN  /\ Len(e) = Cardinality(DOMAIN all_metrics)
            /\ { e[k][1] : k \in 1..Len(e) } = DOMAIN all_metrics
            /\ \A k \in 1..(Len(e) - 1) : e[k][1] < e[k + 1][1]
            /\ \A k \in 1..Len(e) :
                  LET m == all_metrics[e[k][1]]
                  IN  e[k] = <<e[k][1], m.depth, m.height, m.italic, m.skew, m.width>>

\* C9 witness: a table of two entries was written, the first with a depth
\* that differs from its height and from its width.
C9_Witness ==
    /\ outFile # NoFile
    /\ Len(outFile.entries) = 2
    /\ outFile.entries[1][2] # outFile.entries[1][3]
    /\ outFile.entries[1][3] # outFile.entries[1][6]
    /\ outFile.entries[1][2] > 0

EmptyCmapFont ==
    /\ argv # NoArg
    /\ fontfile.kind = "font"
    /\ DOMAIN fontfile.cmap = {}

\* C10: for a font whose character map is empty the function raises before
\* handling any code point; the run takes the fatal path, never prints
\* 'Failed to extract any characters' and writes no file.
C10_EmptyCmapIsFatal ==
    EmptyCmapFont =>
        /\ pc \in {"start", "done"}
        /\ visited = <<>>
        /\ outFile = NoFile
        /\ "Failed to extract any characters" \notin Range(stdout)
        /\ pc = "done" => stdout = <<"Script failed">>

\* C10 witness: a run on a parsable font with an empty character map and a
\* positive unitsPerEm has ended on the fatal path.
C10_Witness ==
    /\ EmptyCmapFont
    /\ fontfile.unitsPerEm > 0
    /\ pc = "done"
    /\ stdout = <<"Script failed">>

====
